---- MODULE Spec2Model ----
(***************************************************************************)
(* Model of portfolio-balancer: the rebalancing engine                     *)
(* (calculate_rebalancing), the period-bucket rule (get_month_format), the *)
(* valuation history (PortfolioDashboard) and the holdings store           *)
(* (PortfolioInfo), together with the script run (main) that wires them.   *)
(*                                                                         *)
(* Numbers are exact: an amount is an integer or a rational <<n, d>> in    *)
(* lowest terms with d > 0, standing for Python's int and float values.    *)
(* Python's int() is truncation toward zero.                               *)
(***************************************************************************)
EXTENDS Integers, Sequences, FiniteSets, TLC

VARIABLES
    now,            \* the wall clock read by get_month_format: <<year, month, day>>
    current_date,   \* the last label get_month_format returned (a string of characters)
    history_db,     \* investment_portfolio.db: table name -> rows [date, total_value]
    written,        \* per table, date -> the latest value saved under it
    info_db,        \* portfolio_info.db: table name -> rows of holdings
    default_etfs,   \* main(): the holdings loaded for each tab
    etf_list,       \* the holdings handed to calculate_rebalancing
    total_deposit,  \* the cash handed to calculate_rebalancing
    outcome,        \* what calculate_rebalancing did with them
    tab,            \* the portfolio type whose button was pressed last
    last,           \* the last thing that happened
    clicks          \* rebalancing buttons pressed so far

vars == <<now, current_date, history_db, written, info_db, default_etfs,
          etf_list, total_deposit, outcome, tab, last, clicks>>

----------------------------------------------------------------------------
(* Exact arithmetic *)

Abs(x) == IF x < 0 THEN -x ELSE x

RECURSIVE GCD(_, _)
GCD(a, b) == IF b = 0 THEN a ELSE GCD(b, a % b)

\* the rational n/d (d # 0) in lowest terms, denominator positive
Rat(n, d) ==
    LET s == IF d < 0 THEN -1 ELSE 1
        g == GCD(Abs(n), Abs(d))
    IN  <<(s * n) \div g, (s * d) \div g>>

R(i) == <<i, 1>>
RAdd(x, y) == Rat(x[1] * y[2] + y[1] * x[2], x[2] * y[2])
RNeg(x) == <<-x[1], x[2]>>
RSub(x, y) == RAdd(x, RNeg(y))
RMul(x, y) == Rat(x[1] * y[1], x[2] * y[2])
RDiv(x, y) == Rat(x[1] * y[2], x[2] * y[1])
RAbs(x) == <<Abs(x[1]), x[2]>>
RLe(x, y) == x[1] * y[2] <= y[1] * x[2]
RLt(x, y) == x[1] * y[2] < y[1] * x[2]
RIsZero(x) == x[1] = 0

\* rounding down instead of toward zero
TruncMut(x) == x[1] \div x[2]
\* Python int(x): the integer part, truncated toward zero
Trunc(x) == IF x[1] >= 0 THEN x[1] \div x[2] ELSE -((-x[1]) \div x[2])

RECURSIVE SumR(_, _)
SumR(f, n) == IF n = 0 THEN R(0) ELSE RAdd(SumR(f, n - 1), f[n])

----------------------------------------------------------------------------
(* calculate_rebalancing *)

NoCode == "<no code>"   \* a holding dictionary without a 'code' key

\* convert_to_number on a value that is already a number: returned as it is
convert_to_number(input_value) == input_value

\* line 255 / line 310: sum(price * qty) on the quantities as given
PortfolioValue(etfs) ==
    SumR([i \in 1..Len(etfs) |->
             RMul(R(convert_to_number(etfs[i].current_price)),
                  convert_to_number(etfs[i].current_qty))], Len(etfs))

\* line 260: int(price) * int(qty); prices are whole numbers
CurrentValue(etf) == R(etf.current_price * Trunc(etf.current_qty))

\* lines 259-270: one etf_values entry (total_investment # 0)
EtfValue(etf, total_investment) ==
    LET current_value == CurrentValue(etf)
        target_value  == RMul(total_investment, etf.target_ratio)
    IN  [etf              |-> etf,
         current_value    |-> current_value,
         current_ratio    |-> RDiv(current_value, total_investment),
         target_value     |-> target_value,
         target_ratio     |-> etf.target_ratio,
         value_difference |-> RSub(target_value, current_value)]

\* line 272: sorted(key = abs(value_difference), reverse = True).  Python's sort is
\* stable, also with reverse = True: equal keys keep their input order.  Insert x
\* behind every element whose key is >= its own.
SortKey(x) == RAbs(x.value_difference)

\* a sort that puts a holding in front of those of equal key
RECURSIVE InsertDescMut(_, _)
InsertDescMut(s, x) ==
    IF s = <<>> THEN <<x>>
    ELSE IF RLt(SortKey(x), SortKey(Head(s)))
         THEN <<Head(s)>> \o InsertDescMut(Tail(s), x)
         ELSE <<x>> \o s

RECURSIVE InsertDesc(_, _)
InsertDesc(s, x) ==
    IF s = <<>> THEN <<x>>
    ELSE IF RLe(SortKey(x), SortKey(Head(s)))
         THEN <<Head(s)>> \o InsertDesc(Tail(s), x)
         ELSE <<x>> \o s

RECURSIVE SortedDesc(_)
SortedDesc(s) ==
    IF s = <<>> THEN <<>>
    ELSE InsertDesc(SortedDesc(SubSeq(s, 1, Len(s) - 1)), s[Len(s)])

\* the deficit traded without looking at the remaining cash
TradeValueMut(value_difference, remaining_deposit) == value_difference

\* only buys capped by the remaining cash
TradeValueSellMut(value_difference, remaining_deposit) ==
    IF RLe(RAbs(value_difference), remaining_deposit) \/ RLt(value_difference, R(0))
    THEN value_difference
    ELSE remaining_deposit

\* line 281
TradeValue(value_difference, remaining_deposit) ==
    IF RLe(RAbs(value_difference), remaining_deposit)
    THEN value_difference
    ELSE IF RLt(R(0), value_difference)
         THEN remaining_deposit
         ELSE RNeg(remaining_deposit)

\* line 283: int(trade_value / price), price # 0
QtyToTrade(trade_value, price) == Trunc(RDiv(trade_value, R(price)))

\* line 285
RemainingAfter(remaining_deposit, qty_to_trade, price) ==
    RSub(remaining_deposit, R(Abs(qty_to_trade * price)))

\* the trade quantity taken off instead of added
UpdatedQtyMut(current_qty, qty_to_trade) == RSub(current_qty, R(qty_to_trade))

\* line 303
UpdatedQty(current_qty, qty_to_trade) == RAdd(current_qty, R(qty_to_trade))

\* line 295
TradeType(qty_to_trade) ==
    IF qty_to_trade > 0 THEN "BUY" ELSE IF qty_to_trade < 0 THEN "SELL" ELSE "HOLD"

Raised(exception, remaining) ==
    [status |-> exception, results |-> <<>>, update_info |-> <<>>,
     remaining |-> remaining]

\* lines 277-307: the walk over sorted_etfs from item k on.  remaining is the
\* sequence of values remaining_deposit has taken so far.
RECURSIVE Walk(_, _, _, _, _)
Walk(sorted_etfs, k, results, update_info, remaining) ==
    IF k > Len(sorted_etfs)
    THEN [status |-> "ok", results |-> results, update_info |-> update_info,
          remaining |-> remaining]
    ELSE
      LET item == sorted_etfs[k]
          etf  == item.etf
          remaining_deposit == remaining[Len(remaining)]
      IN
      IF etf.current_price = 0
      THEN Raised("ZeroDivisionError", remaining)
      ELSE
        LET trade_value  == TradeValue(item.value_difference, remaining_deposit)
            qty_to_trade == QtyToTrade(trade_value, etf.current_price)
            left         == RemainingAfter(remaining_deposit, qty_to_trade,
                                           etf.current_price)
            result == [name          |-> etf.name,
                       current_price |-> etf.current_price,
                       current_qty   |-> etf.current_qty,
                       current_value |-> item.current_value,
                       current_ratio |-> item.current_ratio,
                       target_ratio  |-> item.target_ratio,
                       qty_to_trade  |-> qty_to_trade,
                       trade_type    |-> TradeType(qty_to_trade)]
            update == [name          |-> etf.name,
                       code          |-> etf.code,
                       current_price |-> etf.current_price,
                       current_qty   |-> UpdatedQty(etf.current_qty, qty_to_trade),
                       current_value |-> item.current_value,
                       current_ratio |-> item.current_ratio,
                       target_ratio  |-> item.target_ratio]
        IN
        IF etf.code = NoCode
        THEN Raised("KeyError", Append(remaining, left))
        ELSE Walk(sorted_etfs, k + 1, Append(results, result),
                  Append(update_info, update), Append(remaining, left))

\* lines 253-310
calculate_rebalancing(etfs, deposit) ==
    LET total_portfolio_value == PortfolioValue(etfs)
        total_investment == RAdd(total_portfolio_value, R(deposit))
    IN
    IF etfs # <<>> /\ RIsZero(total_investment)
    THEN Raised("ZeroDivisionError", <<R(deposit)>>)
              @@ [current_portfolio_value |-> R(0)]
    ELSE
      LET etf_values  == [i \in 1..Len(etfs) |-> EtfValue(etfs[i], total_investment)]
          sorted_etfs == SortedDesc(etf_values)
          walked      == Walk(sorted_etfs, 1, <<>>, <<>>, <<R(deposit)>>)
      IN  walked @@ [current_portfolio_value |->
                        IF walked.status = "ok" THEN PortfolioValue(etfs) ELSE R(0)]

----------------------------------------------------------------------------
(* get_month_format.  A label is a string held as its sequence of characters. *)

DigitChars == <<"0", "1", "2", "3", "4", "5", "6", "7", "8", "9">>

\* str(n), n >= 0
RECURSIVE Decimal(_)
Decimal(n) ==
    IF n < 10 THEN <<DigitChars[n + 1]>>
    ELSE Decimal(n \div 10) \o <<DigitChars[(n % 10) + 1]>>

\* format spec 02d and strftime's %m: at least two digits, zero filled
ZeroFilled2(n) == IF n < 10 THEN <<"0">> \o Decimal(n) ELSE Decimal(n)

\* strftime("%Y-%m"), for a year of four digits
Strftime_Y_m(date) == Decimal(date[1]) \o <<"-">> \o ZeroFilled2(date[2])

\* rolling over after the 25th instead of from the 25th on
get_month_formatMut(date) ==
    IF date[3] > 25
    THEN LET next_month == date[2] + 1
         IN  IF next_month > 12
             THEN Decimal(date[1] + 1) \o <<"-">> \o ZeroFilled2(1)
             ELSE Decimal(date[1]) \o <<"-">> \o ZeroFilled2(next_month)
    ELSE Strftime_Y_m(date)

\* src/utils.py lines 3-19, with now = date
get_month_format(date) ==
    IF date[3] >= 25
    THEN LET next_month == date[2] + 1
         IN  IF next_month > 12
             THEN Decimal(date[1] + 1) \o <<"-">> \o ZeroFilled2(1)
             ELSE Decimal(date[1]) \o <<"-">> \o ZeroFilled2(next_month)
    ELSE Strftime_Y_m(date)

----------------------------------------------------------------------------
(* PortfolioDashboard: the valuation history, one table per portfolio type.
   A table is its rows in rowid order. *)

PortfolioTypes == {"personal", "retirement", "coin"}

\* lines 175-179 and 195-199
HistoryTable(portfolio_type) ==
    CASE portfolio_type = "personal"   -> "personal_pension"
      [] portfolio_type = "retirement" -> "retirement_pension"
      [] portfolio_type = "coin"       -> "cryptocurrency"

HistoryTables == {"personal_pension", "retirement_pension", "cryptocurrency"}

\* ON CONFLICT(date) DO NOTHING: the first value of a period is kept
UpsertMut(rows, date, total_value) ==
    IF \E i \in 1..Len(rows) : rows[i].date = date
    THEN rows
    ELSE Append(rows, [date |-> date, total_value |-> total_value])

\* lines 181-186 on one table: INSERT ... ON CONFLICT(date) DO UPDATE
Upsert(rows, date, total_value) ==
    IF \E i \in 1..Len(rows) : rows[i].date = date
    THEN [i \in 1..Len(rows) |->
             IF rows[i].date = date
             THEN [date |-> date, total_value |-> total_value]
             ELSE rows[i]]
    ELSE Append(rows, [date |-> date, total_value |-> total_value])

\* lines 169-190; current_date is what get_month_format returned at line 173
save_portfolio_history(db, portfolio_type, total_value, date) ==
    [db EXCEPT ![HistoryTable(portfolio_type)] = Upsert(@, date, total_value)]

\* the order of SQLite's BINARY collation on the characters a label is made of
CharCode(c) ==
    IF c = "-" THEN 45
    ELSE 48 + (CHOOSE d \in 0..9 : DigitChars[d + 1] = c)

RECURSIVE TextLess(_, _)
TextLess(a, b) ==
    IF b = <<>> THEN FALSE
    ELSE IF a = <<>> THEN TRUE
    ELSE IF CharCode(Head(a)) # CharCode(Head(b))
         THEN CharCode(Head(a)) < CharCode(Head(b))
         ELSE TextLess(Tail(a), Tail(b))

RECURSIVE InsertByDate(_, _)
InsertByDate(s, row) ==
    IF s = <<>> THEN <<row>>
    ELSE IF TextLess(row.date, Head(s).date)
         THEN <<row>> \o s
         ELSE <<Head(s)>> \o InsertByDate(Tail(s), row)

RECURSIVE OrderByDate(_)
OrderByDate(rows) ==
    IF rows = <<>> THEN <<>>
    ELSE InsertByDate(OrderByDate(SubSeq(rows, 1, Len(rows) - 1)), rows[Len(rows)])

\* lines 192-204: SELECT * ... ORDER BY date
get_portfolio_history(db, portfolio_type) ==
    OrderByDate(db[HistoryTable(portfolio_type)])

\* the call log kept beside the table: date -> the value of the latest call
Logged(log, date, total_value) ==
    [d \in DOMAIN log \cup {date} |-> IF d = date THEN total_value ELSE log[d]]

----------------------------------------------------------------------------
(* PortfolioInfo: the holdings store *)

InfoTables == {"personal_pension_info", "retirement_pension_info"}

\* lines 93-97: the coin type maps to the empty table name
InfoTableForUpdate(portfolio_type) ==
    CASE portfolio_type = "personal"   -> "personal_pension_info"
      [] portfolio_type = "retirement" -> "retirement_pension_info"
      [] portfolio_type = "coin"       -> ""

\* lines 111-115
InfoTableForRead(portfolio_type) ==
    CASE portfolio_type = "personal"   -> "personal_pension_info"
      [] portfolio_type = "retirement" -> "retirement_pension_info"
      [] portfolio_type = "coin"       -> "cryptocurrency"

Row(item) ==
    [code |-> item.code, name |-> item.name, current_qty |-> item.current_qty,
     current_price |-> item.current_price, target_ratio |-> item.target_ratio]

\* INSERT OR REPLACE on a table whose primary key is code: the row of that code is
\* deleted and the new row gets a fresh rowid, after all the others
InsertOrReplace(rows, item) ==
    SelectSeq(rows, LAMBDA r : r.code # item.code) \o <<Row(item)>>

RECURSIVE InsertAll(_, _)
InsertAll(rows, items) ==
    IF items = <<>> THEN rows
    ELSE InsertAll(InsertOrReplace(rows, Head(items)), Tail(items))

\* the seed rows of lines 49-56 and 58-69: the first rows of each list, with
\* prices, quantities and weights scaled down so that every amount stays within
\* TLC's integers
data ==
    << [code |-> "143850", name |-> "TIGER S&P500", current_price |-> 2,
        current_qty |-> R(3), target_ratio |-> Rat(1, 2)],
       [code |-> "132030", name |-> "KODEX Gold", current_price |-> 1,
        current_qty |-> R(1), target_ratio |-> Rat(1, 4)],
       [code |-> "157450", name |-> "TIGER Bond", current_price |-> 3,
        current_qty |-> R(1), target_ratio |-> Rat(1, 4)] >>

pension_data ==
    << [code |-> "36075", name |-> "TIGER US S&P500", current_price |-> 1,
        current_qty |-> R(4), target_ratio |-> Rat(1, 4)],
       [code |-> "411060", name |-> "ACE KRX Gold", current_price |-> 2,
        current_qty |-> R(2), target_ratio |-> Rat(3, 4)] >>

\* lines 321-325: the coin holdings are literals of main(), without a code
coin_etfs ==
    << [code |-> NoCode, name |-> "Bitcoin", current_price |-> 6,
        current_qty |-> Rat(1, 10), target_ratio |-> Rat(1, 2)],
       [code |-> NoCode, name |-> "Ethereum", current_price |-> 4,
        current_qty |-> R(2), target_ratio |-> Rat(3, 10)],
       [code |-> NoCode, name |-> "Others", current_price |-> 1,
        current_qty |-> R(5), target_ratio |-> Rat(1, 5)] >>

\* lines 13-86: the seed rows are written with INSERT OR REPLACE at every construction
PortfolioInfo_init_database(db) ==
    [db EXCEPT !["personal_pension_info"] = InsertAll(@, data),
               !["retirement_pension_info"] = InsertAll(@, pension_data)]

\* lines 88-106, for a portfolio type that has a table
update_portfolio_info(db, portfolio_type, items) ==
    [db EXCEPT ![InfoTableForUpdate(portfolio_type)] = InsertAll(@, items)]

\* lines 108-130
get_portfolio_info(db, portfolio_type) == db[InfoTableForRead(portfolio_type)]

----------------------------------------------------------------------------
(* Bounds *)

MaxLen == 2        \* holdings in a list handed to the engine on its own
MaxPrice == 2      \* highest price drawn
MaxQty == 2        \* highest whole quantity drawn
MaxDeposit == 3    \* highest cash amount drawn
FirstYear == 2025  \* first year of the clock
MaxValue == 2      \* highest total value saved to the history on its own
MaxClicks == 2     \* rebalancing buttons pressed in one run of the application

Pending == [status |-> "pending", results |-> <<>>, update_info |-> <<>>,
            remaining |-> <<>>, current_portfolio_value |-> R(0)]

NoDate == <<>>
EmptyTables(names) == [t \in names |-> <<>>]
NoLog == [t \in HistoryTables |-> <<>>]

\* nothing has run yet: no table holds a row
Idle ==
    /\ current_date = NoDate
    /\ history_db = EmptyTables(HistoryTables)
    /\ written = NoLog
    /\ info_db = EmptyTables(InfoTables)
    /\ default_etfs = [t \in PortfolioTypes |-> <<>>]
    /\ etf_list = <<>>
    /\ total_deposit = 0
    /\ outcome = Pending
    /\ tab = "none"
    /\ last = "init"
    /\ clicks = 0

----------------------------------------------------------------------------
(* The engine on its own: every list of holdings and every cash amount within
   the bounds is handed to calculate_rebalancing once. *)

Prices == 1..MaxPrice
Quantities == {R(q) : q \in 0..MaxQty} \cup {Rat(3, 2)}
Ratios == {R(0), Rat(1, 2), R(1)}
Deposits == 0..MaxDeposit

CodeOf(i) == "C" \o ToString(i)
NameOf(i) == "ETF" \o ToString(i)

Holding(i, price, qty, ratio) ==
    [code |-> CodeOf(i), name |-> NameOf(i), current_price |-> price,
     current_qty |-> qty, target_ratio |-> ratio]

HoldingLists ==
    UNION {[1..n -> Prices \X Quantities \X Ratios] : n \in 0..MaxLen}

AsEtfs(choice) ==
    [i \in 1..Len(choice) |-> Holding(i, choice[i][1], choice[i][2], choice[i][3])]

InitCalc ==
    /\ now = <<FirstYear, 1, 1>>
    /\ current_date = NoDate
    /\ history_db = EmptyTables(HistoryTables)
    /\ written = NoLog
    /\ info_db = EmptyTables(InfoTables)
    /\ default_etfs = [t \in PortfolioTypes |-> <<>>]
    /\ \E choice \in HoldingLists : etf_list = AsEtfs(choice)
    /\ total_deposit \in Deposits
    /\ outcome = Pending
    /\ tab = "none"
    /\ last = "init"
    /\ clicks = 0

Calculate ==
    /\ outcome.status = "pending"
    /\ outcome' = calculate_rebalancing(etf_list, total_deposit)
    /\ last' = "calculated"
    /\ UNCHANGED <<now, current_date, history_db, written, info_db, default_etfs,
                   etf_list, total_deposit, tab, clicks>>

NextCalc == Calculate

SpecCalc == InitCalc /\ [][NextCalc]_vars

----------------------------------------------------------------------------
(* The period-bucket rule on its own: every date of two years. *)

IsLeap(y) == (y % 4 = 0 /\ y % 100 # 0) \/ y % 400 = 0
DaysIn(y, m) ==
    IF m = 2 THEN (IF IsLeap(y) THEN 29 ELSE 28)
    ELSE IF m \in {4, 6, 9, 11} THEN 30 ELSE 31

Dates ==
    {d \in (FirstYear..(FirstYear + 1)) \X (1..12) \X (1..31) : d[3] <= DaysIn(d[1], d[2])}

InitMonth ==
    /\ Idle
    /\ now \in Dates

ReadClock ==
    /\ current_date = NoDate
    /\ current_date' = get_month_format(now)
    /\ last' = "label"
    /\ UNCHANGED <<now, history_db, written, info_db, default_etfs, etf_list,
                   total_deposit, outcome, tab, clicks>>

NextMonth == ReadClock

SpecMonth == InitMonth /\ [][NextMonth]_vars

----------------------------------------------------------------------------
(* The history on its own: any sequence of save_portfolio_history calls, on days
   around the 25th and around the turn of the year. *)

LedgerDates == {<<FirstYear, 11, 25>>, <<FirstYear, 12, 24>>, <<FirstYear, 12, 25>>}

InitLedger ==
    /\ Idle
    /\ now \in LedgerDates

SaveHistory ==
    \E portfolio_type \in PortfolioTypes, v \in 1..MaxValue, date \in LedgerDates :
        /\ now' = date
        /\ current_date' = get_month_format(date)
        /\ history_db' = save_portfolio_history(history_db, portfolio_type, R(v),
                                                get_month_format(date))
        /\ written' = [written EXCEPT ![HistoryTable(portfolio_type)] =
                          Logged(@, get_month_format(date), R(v))]
        /\ last' = IF get_month_format(date) \in DOMAIN written[HistoryTable(portfolio_type)]
                   THEN "saved again" ELSE "saved"
        /\ UNCHANGED <<info_db, default_etfs, etf_list, total_deposit, outcome, tab,
                       clicks>>

NextLedger == SaveHistory

SpecLedger == InitLedger /\ [][NextLedger]_vars

----------------------------------------------------------------------------
(* The application: main() runs from the top at every page load and at every
   press of a rebalancing button. *)

AppDates == {<<FirstYear, 12, 24>>, <<FirstYear, 12, 25>>}
AppDeposits == {0, MaxDeposit}
EditPrices == {-1, 0}
EditQtys == {R(0), R(MaxQty)}

\* the data editor: the price and the quantity columns can be edited (lines 342-356);
\* at most one cell is edited before a press
Edited(etfs) ==
    {etfs}
    \cup {[etfs EXCEPT ![i].current_price = p] : i \in 1..Len(etfs), p \in EditPrices}
    \cup {[etfs EXCEPT ![i].current_qty = q] : i \in 1..Len(etfs), q \in EditQtys}

\* lines 314-326: both stores are constructed, then the holdings are loaded
Loaded(db) ==
    [t \in PortfolioTypes |->
        IF t = "coin" THEN coin_etfs ELSE get_portfolio_info(db, t)]

\* lines 358-367: the button's handler
create_portfolio_tab(history, info, portfolio_type, etfs, deposit, date) ==
    LET res == calculate_rebalancing(etfs, deposit)
    IN
    IF res.status # "ok"
    THEN [outcome |-> res, history |-> history, info |-> info, last |-> "raised",
          saved |-> FALSE]
    ELSE
      LET total_value == RAdd(res.current_portfolio_value, R(deposit))
          history2    == save_portfolio_history(history, portfolio_type, total_value,
                                                get_month_format(date))
      IN
      IF InfoTableForUpdate(portfolio_type) = "" /\ res.update_info # <<>>
      THEN [outcome |-> [res EXCEPT !.status = "OperationalError"],
            history |-> history2, info |-> info, last |-> "raised after save",
            saved |-> TRUE]
      ELSE IF res.update_info = <<>>
      THEN [outcome |-> res, history |-> history2, info |-> info,
            last |-> "rebalanced", saved |-> TRUE]
      ELSE [outcome |-> res, history |-> history2,
            info |-> update_portfolio_info(info, portfolio_type, res.update_info),
            last |-> "rebalanced", saved |-> TRUE]

Earlier(d, e) ==
    \/ d[1] < e[1]
    \/ d[1] = e[1] /\ d[2] < e[2]
    \/ d[1] = e[1] /\ d[2] = e[2] /\ d[3] < e[3]

Init ==
    /\ Idle
    /\ now \in AppDates

\* main() without a button pressed
PageLoad ==
    /\ info_db' = PortfolioInfo_init_database(info_db)
    /\ default_etfs' = Loaded(info_db')
    /\ last' = "loaded"
    /\ UNCHANGED <<now, current_date, history_db, written, etf_list, total_deposit,
                   outcome, tab, clicks>>

\* main() with the button of one tab pressed, on a page that has been loaded and on
\* a day not before the last one.
\* Each \E over a one-element set names a value computed once.
Rebalance ==
    /\ last # "init"
    /\ clicks < MaxClicks
    /\ \E seeded \in {PortfolioInfo_init_database(info_db)} :
       \E loaded \in {Loaded(seeded)} :
       \E portfolio_type \in PortfolioTypes, deposit \in AppDeposits,
          date \in {d \in AppDates : ~Earlier(d, now)} :
       \E etfs \in Edited(loaded[portfolio_type]) :
       \E done \in {create_portfolio_tab(history_db, seeded, portfolio_type,
                                         etfs, deposit, date)} :
           /\ default_etfs' = loaded
           /\ etf_list' = etfs
           /\ total_deposit' = deposit
           /\ tab' = portfolio_type
           /\ now' = date
           /\ current_date' = IF done.saved THEN get_month_format(date)
                              ELSE current_date
           /\ outcome' = done.outcome
           /\ history_db' = done.history
           /\ written' =
                IF done.saved
                THEN [written EXCEPT ![HistoryTable(portfolio_type)] =
                         Logged(@, get_month_format(date),
                                RAdd(done.outcome.current_portfolio_value,
                                     R(deposit)))]
                ELSE written
           /\ info_db' = done.info
           /\ last' = done.last
           /\ clicks' = clicks + 1

Next == PageLoad \/ Rebalance

Spec == Init /\ [][Next]_vars

----------------------------------------------------------------------------
(* Properties of calculate_rebalancing, checked under SpecCalc *)

PositivePrices(etfs) == \A i \in 1..Len(etfs) : etfs[i].current_price > 0

\* total_investable: the value returned by the engine plus the new cash
TotalInvestable == RAdd(outcome.current_portfolio_value, R(total_deposit))

\* the deficit of a plan entry: total_investable * target_ratio - current_value
Deficit(entry) ==
    RSub(RMul(TotalInvestable, entry.target_ratio), entry.current_value)

InputIndex(name) == CHOOSE i \in 1..Len(etf_list) : etf_list[i].name = name

Traded(entry) == R(Abs(entry.qty_to_trade) * entry.current_price)

\* C1: with positive prices and new cash >= 0, remaining_deposit starts at the new
\* cash, never grows from one processed holding to the next and is never negative.
C1_RemainingCashNeverGrowsNorGoesNegative ==
    (outcome.status # "pending" /\ PositivePrices(etf_list) /\ total_deposit >= 0) =>
        LET rem == outcome.remaining
        IN  /\ rem[1] = R(total_deposit)
            /\ outcome.status = "ok" => Len(rem) = Len(etf_list) + 1
            /\ \A k \in 2..Len(rem) : RLe(rem[k], rem[k - 1]) /\ RLe(R(0), rem[k])

\* a walk over two holdings in which both steps spent cash, the second one the last of it
C1_Witness ==
    /\ outcome.status = "ok"
    /\ total_deposit > 0
    /\ Len(outcome.remaining) = 3
    /\ RLt(outcome.remaining[2], outcome.remaining[1])
    /\ RLt(outcome.remaining[3], outcome.remaining[2])
    /\ outcome.remaining[3] = R(0)

C8_CurrentValueIsPriceTimesQuantity ==
    outcome.status = "ok" =>
        LET plan == outcome.results
        IN  /\ \A k \in 1..Len(plan) :
                 plan[k].current_value =
                     RMul(R(plan[k].current_price), plan[k].current_qty)
            /\ SumR([k \in 1..Len(plan) |-> plan[k].current_value], Len(plan))
                   = outcome.current_portfolio_value

----------------------------------------------------------------------------
(* Property of get_month_format, checked under SpecMonth *)

IsDigit(c) == \E d \in 0..9 : DigitChars[d + 1] = c
DigitValue(c) == CHOOSE d \in 0..9 : DigitChars[d + 1] = c

\* the number a run of digit characters spells
RECURSIVE Spelled(_)
Spelled(chars) ==
    IF chars = <<>> THEN 0
    ELSE 10 * Spelled(SubSeq(chars, 1, Len(chars) - 1)) + DigitValue(chars[Len(chars)])

IsLabel(label) ==
    /\ Len(label) = 7
    /\ label[5] = "-"
    /\ \A i \in {1, 2, 3, 4, 6, 7} : IsDigit(label[i])
    /\ Spelled(SubSeq(label, 6, 7)) \in 1..12

LabelYear(label) == Spelled(SubSeq(label, 1, 4))
LabelMonth(label) == Spelled(SubSeq(label, 6, 7))

\* C6: the label of a date is "YYYY-MM" with a month of 01..12: the date's own month
\* up to day 24, the next calendar month from day 25 on, January of the next year
\* after December.
C6_BucketIsThisMonthUntilDay24ThenNextMonth ==
    current_date # NoDate =>
        LET roll == now[3] >= 25
            year == IF roll /\ now[2] = 12 THEN now[1] + 1 ELSE now[1]
            month == IF ~roll THEN now[2] ELSE IF now[2] = 12 THEN 1 ELSE now[2] + 1
        IN  /\ now[3] <= 24 \/ now[3] >= 25
            /\ IsLabel(current_date)
            /\ LabelYear(current_date) = year
            /\ LabelMonth(current_date) = month

\* the 25th of December is filed under January of the next year
C6_Witness ==
    /\ now[2] = 12
    /\ now[3] = 25
    /\ current_date # NoDate
    /\ LabelYear(current_date) = now[1] + 1
    /\ LabelMonth(current_date) = 1

----------------------------------------------------------------------------
(* Property of the valuation history, checked under SpecLedger *)

TypeOfTable(t) == CHOOSE p \in PortfolioTypes : HistoryTable(p) = t

\* C5: after any sequence of saves, each table holds exactly one row per label ever
\* saved to it, carrying the value of the latest save under that label (so a save
\* touches no other label and no other table, and no row is lost), and the history
\* is read back with all its rows, in ascending order of the label.
C5_OneRecordPerPeriodWithLatestValue ==
    \A t \in HistoryTables :
        LET rows == history_db[t]
            log  == written[t]
            read == get_portfolio_history(history_db, TypeOfTable(t))
        IN  /\ \A i, j \in 1..Len(rows) : i # j => rows[i].date # rows[j].date
            /\ {rows[i].date : i \in 1..Len(rows)} = DOMAIN log
            /\ \A i \in 1..Len(rows) : rows[i].total_value = log[rows[i].date]
            /\ Len(read) = Len(rows)
            /\ {read[i] : i \in 1..Len(read)} = {rows[i] : i \in 1..Len(rows)}
            /\ \A i, j \in 1..Len(read) :
                 i < j =>
                   \/ LabelYear(read[i].date) < LabelYear(read[j].date)
                   \/ /\ LabelYear(read[i].date) = LabelYear(read[j].date)
                      /\ LabelMonth(read[i].date) < LabelMonth(read[j].date)

\* a label has just been saved a second time, to a table whose later label was saved
\* first, while another table holds a row of its own
C5_Witness ==
    /\ last = "saved again"
    /\ \E t, u \in HistoryTables :
        /\ t # u
        /\ Len(history_db[t]) = 2
        /\ LabelYear(history_db[t][2].date) < LabelYear(history_db[t][1].date)
        /\ \E i \in 1..2 : history_db[t][i].date = current_date
        /\ Len(history_db[u]) = 1

----------------------------------------------------------------------------
(* Properties of the application, checked under Spec *)

Pressed == last \in {"rebalanced", "raised", "raised after save"}

StoredRows(portfolio_type) == info_db[InfoTableForUpdate(portfolio_type)]

\* the trade quantity the plan gives for a holding
PlannedTrade(name) ==
    LET k == CHOOSE k \in 1..Len(outcome.results) : outcome.results[k].name = name
    IN  outcome.results[k].qty_to_trade

\* C3: a run with new cash 0 and positive prices trades nothing: every plan entry is
\* a HOLD of quantity 0 whatever the deficits are, and the quantities written to the
\* holdings store are those the run was given.
C3_NoCashNoTrade ==
    (last = "rebalanced" /\ total_deposit = 0 /\ PositivePrices(etf_list)) =>
        /\ Len(outcome.results) = Len(etf_list)
        /\ \A k \in 1..Len(outcome.results) :
             /\ outcome.results[k].qty_to_trade = 0
             /\ outcome.results[k].trade_type = "HOLD"
        /\ \A i \in 1..Len(etf_list) :
             \E r \in 1..Len(StoredRows(tab)) :
                 /\ StoredRows(tab)[r].code = etf_list[i].code
                 /\ StoredRows(tab)[r].current_qty = etf_list[i].current_qty

\* a run without cash on holdings of which one is underweight and one overweight
C3_Witness ==
    /\ last = "rebalanced"
    /\ total_deposit = 0
    /\ PositivePrices(etf_list)
    /\ \E k \in 1..Len(outcome.results) : RLt(R(0), Deficit(outcome.results[k]))
    /\ \E k \in 1..Len(outcome.results) : RLt(Deficit(outcome.results[k]), R(0))
    /\ \A k \in 1..Len(outcome.results) : outcome.results[k].qty_to_trade = 0

\* C4: the holdings a new session loads carry, for every code, the quantity the last
\* run wrote (the quantity it was given plus its trade quantity).  Stated for a run
\* on the holdings as loaded, the editor untouched, that traded something.
C4_NextSessionStartsFromPersistedQuantities ==
    (/\ last = "loaded"
     /\ clicks > 0
     /\ outcome.status = "ok"
     /\ etf_list = default_etfs[tab]
     /\ \E k \in 1..Len(outcome.results) : outcome.results[k].qty_to_trade # 0) =>
        \A k \in 1..Len(outcome.update_info) :
            \E i \in 1..Len(default_etfs[tab]) :
                /\ default_etfs[tab][i].code = outcome.update_info[k].code
                /\ default_etfs[tab][i].current_qty = outcome.update_info[k].current_qty

InvalidInput ==
    \/ RIsZero(RAdd(PortfolioValue(etf_list), R(total_deposit)))
    \/ \E i \in 1..Len(etf_list) : etf_list[i].current_price <= 0

\* C7: a run whose total investable amount is 0, or in which a holding's price is
\* <= 0, ends in an error: it produces no plan and writes to neither store.  Any
\* raised error is taken for the InvalidInputError of the claim.
C7_InvalidInputIsRejectedWithoutEffect ==
    (Pressed /\ InvalidInput) =>
        /\ outcome.status \notin {"ok", "pending"}
        /\ outcome.results = <<>>
        /\ last = "raised"

ValidRun ==
    /\ PositivePrices(etf_list)
    /\ total_deposit >= 0
    /\ \A i \in 1..Len(etf_list) :
         /\ RLe(R(0), etf_list[i].current_qty)
         /\ RLe(R(0), etf_list[i].target_ratio)
         /\ RLe(etf_list[i].target_ratio, R(1))

\* C10: unless the last run was given a price <= 0 or negative cash, no quantity in
\* the holdings store is negative; and after such a run the store holds, for every
\* holding of the run, one row with its code, name, price and target ratio as given
\* and the quantity given plus the trade quantity.
C10_StoredQuantitiesStayNonNegative ==
    (last = "rebalanced" => ValidRun) =>
        /\ \A t \in InfoTables : \A r \in 1..Len(info_db[t]) :
               RLe(R(0), info_db[t][r].current_qty)
        /\ last = "rebalanced" =>
             \A i \in 1..Len(etf_list) :
                 LET rows == {r \in 1..Len(StoredRows(tab)) :
                                 StoredRows(tab)[r].code = etf_list[i].code}
                 IN  /\ Cardinality(rows) = 1
                     /\ \A r \in rows :
                          /\ StoredRows(tab)[r].name = etf_list[i].name
                          /\ StoredRows(tab)[r].current_price = etf_list[i].current_price
                          /\ StoredRows(tab)[r].target_ratio = etf_list[i].target_ratio
                          /\ StoredRows(tab)[r].current_qty =
                                 RAdd(etf_list[i].current_qty,
                                      R(PlannedTrade(etf_list[i].name)))

\* a second run in a row, with valid input, that sold units of a holding and left a
\* quantity >= 0 in the store
C10_Witness ==
    /\ last = "rebalanced"
    /\ clicks = 2
    /\ ValidRun
    /\ \E i \in 1..Len(etf_list) :
         /\ PlannedTrade(etf_list[i].name) < 0
         /\ \E r \in 1..Len(StoredRows(tab)) :
              /\ StoredRows(tab)[r].code = etf_list[i].code
              /\ RLe(R(0), StoredRows(tab)[r].current_qty)
              /\ RLt(StoredRows(tab)[r].current_qty, etf_list[i].current_qty)

====
